---- MODULE Spec2Model ----
(***************************************************************************)
(* Model of the chat proxy in main.go: the pure text functions             *)
(* (formatPromptWithReferenceRequest, parseResponseAndReferences and the   *)
(* strings.Split / strings.TrimSpace they call) and chatHandler, run by    *)
(* one goroutine per inbound request.                                      *)
(*                                                                         *)
(* A Go string is a sequence of one-character strings.                     *)
(***************************************************************************)
EXTENDS Integers, Sequences, FiniteSets, TLC

VARIABLES
    content,        \* parse harness: the text given to parseResponseAndReferences
    parsed,         \* parse harness: its result, or NotParsed
    endpoint,       \* os.Getenv("AZURE_ENDPOINT"), read-only after startup
    stub,           \* the deterministic upstream stub (prompt -> reply), or NoStub
    reqBody,        \* per request: the inbound HTTP body
    pc,             \* per request: the handler's position
    chatRequest,    \* per request: the decoded ChatRequest.Message
    jsonData,       \* per request: the user turn of the marshalled request body
    outbound,       \* per request: the calls issued through client.Do
    upstream,       \* per request: what client.Do returned, or NoReply
    body,           \* per request: the bytes ioutil.ReadAll returned
    azureResponse,  \* per request: the decoded AzureResponse.Choices
    written         \* per request: the responses written to the ResponseWriter

vars == <<content, parsed, endpoint, stub, reqBody, pc, chatRequest,
         jsonData, outbound, upstream, body, azureResponse, written>>

----------------------------------------------------------------------------
(* Bounds *)

\* longest text of the parse harness, in pieces
MaxPieces == 4

\* longest choices array of an upstream reply
MaxChoices == 2

----------------------------------------------------------------------------
(* Text functions *)

\* the literal "References:" of parseResponseAndReferences
Marker == <<"R", "e", "f", "e", "r", "e", "n", "c", "e", "s", ":">>

\* the format string of formatPromptWithReferenceRequest after its %s
Template ==
    << "\n", "\n",
       "Please provide a detailed response with references. Include:", "\n",
       "1. A clear explanation", "\n",
       "2. Supporting evidence", "\n",
       "3. Specific citations", "\n",
       "4. A numbered list of references at the end", "\n",
       "\n",
       "Format references using a standard academic format." >>

formatPromptTemplateOnly(message) == Template

\* fmt.Sprintf("%s<template>", message)
formatPromptWithReferenceRequest(message) == message \o Template

\* unicode.IsSpace on the characters a TLA+ string can spell
IsSpace(c) == c \in {"\t", "\n", "\f", "\r", " "}

\* sep occurs in s at position i
HasPrefixAt(s, sep, i) ==
    /\ i + Len(sep) - 1 <= Len(s)
    /\ SubSeq(s, i, i + Len(sep) - 1) = sep

\* strings.Index, 1-based; 0 where Go returns -1
Index(s, sep) ==
    LET hits == {i \in 1..Len(s) : HasPrefixAt(s, sep, i)}
    IN  IF hits = {} THEN 0
        ELSE CHOOSE i \in hits : \A j \in hits : i <= j

RECURSIVE Split(_, _)
\* strings.Split for a non-empty sep: cut at every occurrence, left to right
Split(s, sep) ==
    LET m == Index(s, sep)
    IN  IF m = 0 THEN <<s>>
        ELSE <<SubSeq(s, 1, m - 1)>> \o Split(SubSeq(s, m + Len(sep), Len(s)), sep)

\* strings.TrimSpace
TrimSpace(s) ==
    LET keep == {i \in 1..Len(s) : ~IsSpace(s[i])}
    IN  IF keep = {} THEN <<>>
        ELSE SubSeq(s, CHOOSE i \in keep : \A j \in keep : i <= j,
                       CHOOSE i \in keep : \A j \in keep : j <= i)

\* the loop of parseResponseAndReferences: trim each line, keep the non-empty
ReferenceLines(referencesText) ==
    LET lines   == Split(referencesText, <<"\n">>)
        trimmed == [i \in 1..Len(lines) |-> TrimSpace(lines[i])]
    IN  SelectSeq(trimmed, LAMBDA t : t # <<>>)

parseKeepMainUntrimmed(text) ==
    LET parts == Split(text, Marker)
    IN  IF Len(parts) < 2
        THEN [main |-> text, references |-> <<>>]
        ELSE [main |-> parts[1],
              references |-> ReferenceLines(TrimSpace(parts[2]))]

\* parseResponseAndReferences; a nil slice is the empty sequence
parseResponseAndReferences(text) ==
    LET parts == Split(text, Marker)
    IN  IF Len(parts) < 2
        THEN [main |-> text, references |-> <<>>]
        ELSE [main |-> TrimSpace(parts[1]),
              references |-> ReferenceLines(TrimSpace(parts[2]))]

----------------------------------------------------------------------------
(* Inputs of the parse harness *)

Pieces == {Marker, <<"a">>, <<"b">>, <<" ">>, <<"\n">>}

RECURSIVE Concats(_)
Concats(n) ==
    IF n = 0 THEN {<<>>}
    ELSE LET shorter == Concats(n - 1)
         IN  shorter \cup {p \o t : p \in Pieces, t \in shorter}

Texts == Concats(MaxPieces)

NotParsed == [main |-> <<"?">>, references |-> <<>>, pending |-> TRUE]

----------------------------------------------------------------------------
(* Inputs of the handler *)

\* the goroutines net/http runs chatHandler in, one per inbound request
Requests == {"r1", "r2"}

Messages == {<<>>, <<"a">>}

\* an inbound body: not JSON for ChatRequest, or JSON carrying a message
\* (a missing message decodes to the empty one)
BadBody == [json |-> FALSE, message |-> <<>>]
RequestBodies == {BadBody} \cup {[json |-> TRUE, message |-> m] : m \in Messages}

\* values of AZURE_ENDPOINT: one url.Parse accepts, one it rejects
Endpoints == {"https://upstream.example/chat", "://malformed"}
ParseableURL(e) == e # "://malformed"

\* choices[i].message.content of upstream replies: one without the marker,
\* one with it
Contents == { <<" ", "a">>, <<"a", " ">> \o Marker \o <<"\n", "b">> }

ChoiceSeqs == UNION {[1..n -> Contents] : n \in 0..MaxChoices}

NotJson == [json |-> FALSE, choices |-> <<>>]
Bodies  == {NotJson} \cup {[json |-> TRUE, choices |-> cs] : cs \in ChoiceSeqs}

\* what client.Do can return: an error, or a response with any status whose
\* body can or cannot be read
NoReply   == [kind |-> "none", status |-> 0, readable |-> FALSE, body |-> NotJson]
SendError == [kind |-> "error", status |-> 0, readable |-> FALSE, body |-> NotJson]
UpstreamReplies ==
    {SendError}
    \cup {[kind |-> "response", status |-> s, readable |-> FALSE, body |-> NotJson] :
            s \in {200, 500}}
    \cup {[kind |-> "response", status |-> s, readable |-> TRUE, body |-> b] :
            s \in {200, 500}, b \in Bodies}

\* parseResponseAndReferences on every content an upstream reply can carry
mainContentAndReferences == [text \in Contents |-> parseResponseAndReferences(text)]

\* the deterministic stubs: one fixed reply per prompt
Prompts     == {formatPromptWithReferenceRequest(m) : m \in Messages}
StubReplies == {u \in UpstreamReplies : u.status # 500 /\ Len(u.body.choices) <= 1}
NoStub      == <<>>

----------------------------------------------------------------------------
(* chatHandler *)

\* http.Error(w, msg, code) by request r
httpError(r, msg, code) ==
    written' = [written EXCEPT ![r] = Append(@, [status |-> code, body |-> [text |-> msg]])]

\* json.Marshal of the request map: strings, numbers and nil only, so it
\* returns no error
jsonMarshalFails(message) == FALSE

DecodeRequestNoReturn(r) ==
    /\ pc[r] = "decode"
    /\ IF ~reqBody[r].json
       THEN /\ httpError(r, "Invalid request payload", 400)
            /\ pc' = [pc EXCEPT ![r] = "build"]
            /\ UNCHANGED chatRequest
       ELSE /\ chatRequest' = [chatRequest EXCEPT ![r] = reqBody[r].message]
            /\ pc' = [pc EXCEPT ![r] = "build"]
            /\ UNCHANGED written
    /\ UNCHANGED <<content, parsed, endpoint, stub, reqBody, jsonData, outbound,
                   upstream, body, azureResponse>>

DecodeRequest(r) ==
    /\ pc[r] = "decode"
    /\ IF ~reqBody[r].json
       THEN /\ httpError(r, "Invalid request payload", 400)
            /\ pc' = [pc EXCEPT ![r] = "done"]
            /\ UNCHANGED chatRequest
       ELSE /\ chatRequest' = [chatRequest EXCEPT ![r] = reqBody[r].message]
            /\ pc' = [pc EXCEPT ![r] = "build"]
            /\ UNCHANGED written
    /\ UNCHANGED <<content, parsed, endpoint, stub, reqBody, jsonData, outbound,
                   upstream, body, azureResponse>>

BuildRequest(r) ==
    /\ pc[r] = "build"
    /\ IF jsonMarshalFails(chatRequest[r])
       THEN /\ httpError(r, "Failed to marshal request data", 500)
            /\ pc' = [pc EXCEPT ![r] = "done"]
            /\ UNCHANGED jsonData
       ELSE IF ~ParseableURL(endpoint)
       THEN /\ httpError(r, "Failed to create request", 500)
            /\ pc' = [pc EXCEPT ![r] = "done"]
            /\ jsonData' = [jsonData EXCEPT
                              ![r] = formatPromptWithReferenceRequest(chatRequest[r])]
       ELSE /\ jsonData' = [jsonData EXCEPT
                              ![r] = formatPromptWithReferenceRequest(chatRequest[r])]
            /\ pc' = [pc EXCEPT ![r] = "do"]
            /\ UNCHANGED written
    /\ UNCHANGED <<content, parsed, endpoint, stub, reqBody, chatRequest, outbound,
                   upstream, body, azureResponse>>

\* client.Do(req) returns reply
DoReturns(r, reply) ==
    /\ outbound' = [outbound EXCEPT ![r] = Append(@, [content |-> jsonData[r]])]
    /\ upstream' = [upstream EXCEPT ![r] = reply]
    /\ IF reply.kind = "error"
       THEN /\ httpError(r, "Failed to send request to Azure OpenAI", 500)
            /\ pc' = [pc EXCEPT ![r] = "done"]
       ELSE /\ pc' = [pc EXCEPT ![r] = "read"]
            /\ UNCHANGED written
    /\ UNCHANGED <<content, parsed, endpoint, stub, reqBody, chatRequest, jsonData,
                   body, azureResponse>>

\* client.Do against an upstream that may answer anything
Do(r) ==
    /\ pc[r] = "do"
    /\ \E reply \in UpstreamReplies : DoReturns(r, reply)

\* client.Do against the deterministic stub
DoStub(r) ==
    /\ pc[r] = "do"
    /\ DoReturns(r, stub[jsonData[r]])

ReadAllNoReturn(r) ==
    /\ pc[r] = "read"
    /\ IF ~upstream[r].readable
       THEN /\ httpError(r, "Failed to read response from Azure OpenAI", 500)
            /\ pc' = [pc EXCEPT ![r] = "unmarshal"]
            /\ UNCHANGED body
       ELSE /\ body' = [body EXCEPT ![r] = upstream[r].body]
            /\ pc' = [pc EXCEPT ![r] = "unmarshal"]
            /\ UNCHANGED written
    /\ UNCHANGED <<content, parsed, endpoint, stub, reqBody, chatRequest, jsonData,
                   outbound, upstream, azureResponse>>

ReadAll(r) ==
    /\ pc[r] = "read"
    /\ IF ~upstream[r].readable
       THEN /\ httpError(r, "Failed to read response from Azure OpenAI", 500)
            /\ pc' = [pc EXCEPT ![r] = "done"]
            /\ UNCHANGED body
       ELSE /\ body' = [body EXCEPT ![r] = upstream[r].body]
            /\ pc' = [pc EXCEPT ![r] = "unmarshal"]
            /\ UNCHANGED written
    /\ UNCHANGED <<content, parsed, endpoint, stub, reqBody, chatRequest, jsonData,
                   outbound, upstream, azureResponse>>

UnmarshalIgnoreError(r) ==
    /\ pc[r] = "unmarshal"
    /\ azureResponse' = [azureResponse EXCEPT ![r] = body[r].choices]
    /\ pc' = [pc EXCEPT ![r] = "choices"]
    /\ UNCHANGED <<content, parsed, endpoint, stub, reqBody, chatRequest, jsonData,
                   outbound, upstream, body, written>>

Unmarshal(r) ==
    /\ pc[r] = "unmarshal"
    /\ IF ~body[r].json
       THEN /\ httpError(r, "Failed to unmarshal response data", 500)
            /\ pc' = [pc EXCEPT ![r] = "done"]
            /\ UNCHANGED azureResponse
       ELSE /\ azureResponse' = [azureResponse EXCEPT ![r] = body[r].choices]
            /\ pc' = [pc EXCEPT ![r] = "choices"]
            /\ UNCHANGED written
    /\ UNCHANGED <<content, parsed, endpoint, stub, reqBody, chatRequest, jsonData,
                   outbound, upstream, body>>

CheckChoices(r) ==
    /\ pc[r] = "choices"
    /\ IF Len(azureResponse[r]) = 0
       THEN /\ httpError(r, "No response choices returned", 500)
            /\ pc' = [pc EXCEPT ![r] = "done"]
       ELSE /\ pc' = [pc EXCEPT ![r] = "respond"]
            /\ UNCHANGED written
    /\ UNCHANGED <<content, parsed, endpoint, stub, reqBody, chatRequest, jsonData,
                   outbound, upstream, body, azureResponse>>

WriteResponseLastChoice(r) ==
    /\ pc[r] = "respond"
    /\ LET split == mainContentAndReferences[azureResponse[r][Len(azureResponse[r])]]
       IN  written' = [written EXCEPT ![r] =
                         Append(@, [status |-> 200,
                                    body |-> [response |-> split.main,
                                              references |-> split.references]])]
    /\ pc' = [pc EXCEPT ![r] = "done"]
    /\ UNCHANGED <<content, parsed, endpoint, stub, reqBody, chatRequest, jsonData,
                   outbound, upstream, body, azureResponse>>

WriteResponseSharedReferences(r) ==
    /\ pc[r] = "respond"
    /\ LET split == mainContentAndReferences[azureResponse[r][1]]
           seen  == {q \in Requests \ {r} :
                        written[q] # <<>> /\ written[q][1].status = 200}
           kept  == IF seen = {} THEN <<>>
                    ELSE written[CHOOSE q \in seen : TRUE][1].body.references
       IN  written' = [written EXCEPT ![r] =
                         Append(@, [status |-> 200,
                                    body |-> [response |-> split.main,
                                              references |-> kept \o split.references]])]
    /\ pc' = [pc EXCEPT ![r] = "done"]
    /\ UNCHANGED <<content, parsed, endpoint, stub, reqBody, chatRequest, jsonData,
                   outbound, upstream, body, azureResponse>>

\* json.NewEncoder(w).Encode(ChatResponse{...}), status 200
WriteResponse(r) ==
    /\ pc[r] = "respond"
    /\ LET split == mainContentAndReferences[azureResponse[r][1]]
       IN  written' = [written EXCEPT ![r] =
                         Append(@, [status |-> 200,
                                    body |-> [response |-> split.main,
                                              references |-> split.references]])]
    /\ pc' = [pc EXCEPT ![r] = "done"]
    /\ UNCHANGED <<content, parsed, endpoint, stub, reqBody, chatRequest, jsonData,
                   outbound, upstream, body, azureResponse>>

----------------------------------------------------------------------------
(* Specifications *)

HandlerInit ==
    /\ endpoint \in Endpoints
    /\ reqBody \in [Requests -> RequestBodies]
    /\ pc = [r \in Requests |-> "decode"]
    /\ chatRequest = [r \in Requests |-> <<>>]
    /\ jsonData = [r \in Requests |-> <<>>]
    /\ outbound = [r \in Requests |-> <<>>]
    /\ upstream = [r \in Requests |-> NoReply]
    /\ body = [r \in Requests |-> NotJson]
    /\ azureResponse = [r \in Requests |-> <<>>]
    /\ written = [r \in Requests |-> <<>>]

\* the server: every request handled against an arbitrary upstream
Init ==
    /\ content = <<>>
    /\ parsed = NotParsed
    /\ stub = NoStub
    /\ HandlerInit

Handler(r) ==
    \/ DecodeRequest(r)
    \/ BuildRequest(r)
    \/ Do(r)
    \/ ReadAll(r)
    \/ Unmarshal(r)
    \/ CheckChoices(r)
    \/ WriteResponse(r)

Next == \E r \in Requests : Handler(r)

Spec == Init /\ [][Next]_vars

\* the goroutines are scheduled and client.Do returns
FairSpec == Spec /\ \A r \in Requests : WF_vars(Handler(r))

\* the server against a deterministic upstream stub
StubInit ==
    /\ content = <<>>
    /\ parsed = NotParsed
    /\ stub \in [Prompts -> StubReplies]
    /\ HandlerInit

StubHandler(r) ==
    \/ DecodeRequest(r)
    \/ BuildRequest(r)
    \/ DoStub(r)
    \/ ReadAll(r)
    \/ Unmarshal(r)
    \/ CheckChoices(r)
    \/ WriteResponse(r)

StubNext == \E r \in Requests : StubHandler(r)

StubSpec == StubInit /\ [][StubNext]_vars

\* parseResponseAndReferences applied to one text
Parse ==
    /\ parsed = NotParsed
    /\ parsed' = parseResponseAndReferences(content)
    /\ UNCHANGED <<content, endpoint, stub, reqBody, pc, chatRequest, jsonData,
                   outbound, upstream, body, azureResponse, written>>

ParseInit ==
    /\ content \in Texts
    /\ parsed = NotParsed
    /\ stub = NoStub
    /\ endpoint = "https://upstream.example/chat"
    /\ reqBody = [r \in Requests |-> BadBody]
    /\ pc = [r \in Requests |-> "decode"]
    /\ chatRequest = [r \in Requests |-> <<>>]
    /\ jsonData = [r \in Requests |-> <<>>]
    /\ outbound = [r \in Requests |-> <<>>]
    /\ upstream = [r \in Requests |-> NoReply]
    /\ body = [r \in Requests |-> NotJson]
    /\ azureResponse = [r \in Requests |-> <<>>]
    /\ written = [r \in Requests |-> <<>>]

ParseNext == Parse

ParseSpec == ParseInit /\ [][ParseNext]_vars

----------------------------------------------------------------------------
(* Vocabulary of the properties *)

ContainsMarker(s) == \E i \in 1..Len(s) : HasPrefixAt(s, Marker, i)

FirstMarker(s) ==
    CHOOSE i \in 1..Len(s) :
        /\ HasPrefixAt(s, Marker, i)
        /\ \A j \in 1..(i - 1) : ~HasPrefixAt(s, Marker, j)

BeforeFirstMarker(s) == SubSeq(s, 1, FirstMarker(s) - 1)
AfterFirstMarker(s)  == SubSeq(s, FirstMarker(s) + Len(Marker), Len(s))

\* t is s without its leading and trailing whitespace
IsTrimOf(t, s) ==
    \E i \in 1..(Len(s) + 1), j \in 0..Len(s) :
        /\ t = SubSeq(s, i, j)
        /\ \A k \in 1..(i - 1) : IsSpace(s[k])
        /\ \A k \in (j + 1)..Len(s) : IsSpace(s[k])
        /\ t # <<>> => ~IsSpace(t[1]) /\ ~IsSpace(t[Len(t)])

\* the lines of s that are not blank, each trimmed, in order
NonBlankLines(s) ==
    LET lines == Split(s, <<"\n">>)
    IN  SelectSeq([i \in 1..Len(lines) |-> TrimSpace(lines[i])], LAMBDA t : t # <<>>)

HasParsed == parsed # NotParsed

ErrorResponse(msg, code) == [status |-> code, body |-> [text |-> msg]]

SuccessResponse(text) ==
    [status |-> 200,
     body |-> [response |-> parseResponseAndReferences(text).main,
               references |-> parseResponseAndReferences(text).references]]

Finished(r) == pc[r] = "done"

\* the upstream reply of r decoded into an AzureResponse
Decoded(r) ==
    /\ upstream[r].kind = "response"
    /\ upstream[r].readable
    /\ upstream[r].body.json

----------------------------------------------------------------------------
(* C1 *)

\* C1: a text without the marker "References:" is returned trimmed of leading
\* and trailing whitespace as the answer, with an empty reference list.
C1_NoMarkerTrimmed ==
    (HasParsed /\ ~ContainsMarker(content)) =>
        /\ IsTrimOf(parsed.main, content)
        /\ parsed.references = <<>>

(* C2 *)

\* C2: for a text with the marker, the reference list is the non-blank lines,
\* trimmed and in order, of everything after the FIRST marker, text after a
\* later marker included.
C2_AllAfterFirstMarker ==
    (HasParsed /\ ContainsMarker(content)) =>
        parsed.references = NonBlankLines(AfterFirstMarker(content))

(* C3 *)

\* C3: for a text with the marker, the answer is the text before the first
\* marker, trimmed, and never contains the marker.
C3_AnswerBeforeFirstMarker ==
    (HasParsed /\ ContainsMarker(content)) =>
        /\ IsTrimOf(parsed.main, BeforeFirstMarker(content))
        /\ ~ContainsMarker(parsed.main)

\* a text with two markers whose answer lost its leading whitespace
C3_Witness ==
    /\ HasParsed
    /\ ContainsMarker(content)
    /\ ContainsMarker(AfterFirstMarker(content))
    /\ parsed.main = <<"a">>
    /\ BeforeFirstMarker(content) = <<" ", "a">>

(* C4 *)

\* C4 as stated: every request whose body decodes issues exactly one outbound
\* call, whose user turn is the message followed by the template.
C4_AlwaysOneCall ==
    \A r \in Requests :
        (Finished(r) /\ reqBody[r].json) =>
            outbound[r] = <<[content |-> reqBody[r].message \o Template]>>

\* C4: a request whose body decodes never issues more than one outbound call;
\* when the outbound request can be constructed it issues exactly one, whose
\* user turn is the message followed by the template; when it cannot, it
\* issues none and is answered 500 "Failed to create request".
C4_OneCallWhenConstructed ==
    \A r \in Requests :
        /\ Len(outbound[r]) <= 1
        /\ (Finished(r) /\ reqBody[r].json) =>
              IF ParseableURL(endpoint)
              THEN outbound[r] = <<[content |-> reqBody[r].message \o Template]>>
              ELSE /\ outbound[r] = <<>>
                   /\ written[r] = <<ErrorResponse("Failed to create request", 500)>>

\* two finished requests, one with the empty message and one with "a", each
\* having issued its call
C4_Witness ==
    \E r1, r2 \in Requests :
        /\ Finished(r1) /\ reqBody[r1].json /\ reqBody[r1].message = <<>>
        /\ Finished(r2) /\ reqBody[r2].json /\ reqBody[r2].message = <<"a">>
        /\ Len(outbound[r1]) = 1 /\ Len(outbound[r2]) = 1

(* C5 *)

\* C5: a request whose body does not decode is answered 400 "Invalid request
\* payload" and never issues an outbound call.
C5_BadRequest ==
    \A r \in Requests :
        ~reqBody[r].json =>
            /\ outbound[r] = <<>>
            /\ pc[r] \in {"decode", "done"}
            /\ Finished(r) => written[r] = <<ErrorResponse("Invalid request payload", 400)>>

\* an undecodable request answered while the other request has called upstream
C5_Witness ==
    \E r1, r2 \in Requests :
        /\ ~reqBody[r1].json /\ Finished(r1) /\ written[r1] # <<>>
        /\ Len(outbound[r2]) = 1

(* C6 *)

\* C6: when the upstream body decodes, empty choices give 500 "No response
\* choices returned" whatever the upstream status, and a success payload is
\* written only for non-empty choices and is the split of choices[0] alone.
C6_NoChoices ==
    \A r \in Requests :
        /\ (Finished(r) /\ Decoded(r)) =>
              IF upstream[r].body.choices = <<>>
              THEN written[r] = <<ErrorResponse("No response choices returned", 500)>>
              ELSE written[r] = <<SuccessResponse(upstream[r].body.choices[1])>>
        /\ \A i \in 1..Len(written[r]) :
              written[r][i].status = 200 =>
                  Decoded(r) /\ upstream[r].body.choices # <<>>

\* one request answered for empty choices under upstream status 500, another
\* answered with success from two different choices
C6_Witness ==
    \E r1, r2 \in Requests :
        /\ Finished(r1) /\ Decoded(r1)
        /\ upstream[r1].status = 500 /\ upstream[r1].body.choices = <<>>
        /\ Finished(r2) /\ Decoded(r2)
        /\ Len(upstream[r2].body.choices) = 2
        /\ upstream[r2].body.choices[1] # upstream[r2].body.choices[2]

(* C7 *)

\* C7: an upstream body that does not decode gives 500 "Failed to unmarshal
\* response data", never "No response choices returned".
C7_UndecodableBody ==
    \A r \in Requests :
        (Finished(r) /\ upstream[r].kind = "response" /\ upstream[r].readable
                     /\ ~upstream[r].body.json) =>
            written[r] = <<ErrorResponse("Failed to unmarshal response data", 500)>>

\* a request answered for an undecodable upstream body
C7_Witness ==
    \E r \in Requests :
        /\ Finished(r)
        /\ upstream[r].kind = "response" /\ upstream[r].readable
        /\ ~upstream[r].body.json
        /\ written[r] # <<>>

(* C8 *)

\* everything the handler of r holds
Local(r) ==
    <<reqBody[r], pc[r], chatRequest[r], jsonData[r], outbound[r], upstream[r],
      body[r], azureResponse[r], written[r]>>

\* C8: a request gets at most one response; once a response is written no
\* further step of that request occurs; and, the upstream call returning,
\* every request eventually has exactly one response.
C8_FailureTerminal ==
    /\ [](\A r \in Requests : Len(written[r]) <= 1)
    /\ [][\A r \in Requests : written[r] # <<>> => Local(r)' = Local(r)]_vars
    /\ \A r \in Requests : <>(Finished(r) /\ Len(written[r]) = 1)

\* one request answered with an error, the other with a success payload
C8_Witness ==
    \E r1, r2 \in Requests :
        /\ Finished(r1) /\ Len(written[r1]) = 1 /\ written[r1][1].status = 500
        /\ upstream[r1].kind = "response" /\ ~upstream[r1].readable
        /\ Finished(r2) /\ Len(written[r2]) = 1 /\ written[r2][1].status = 200

(* C9 *)

\* the response of one request as a function of the configuration, its own
\* body and its own upstream reply
Outcome(e, in, reply) ==
    IF ~in.json THEN ErrorResponse("Invalid request payload", 400)
    ELSE IF ~ParseableURL(e) THEN ErrorResponse("Failed to create request", 500)
    ELSE IF reply.kind = "error"
         THEN ErrorResponse("Failed to send request to Azure OpenAI", 500)
    ELSE IF ~reply.readable
         THEN ErrorResponse("Failed to read response from Azure OpenAI", 500)
    ELSE IF ~reply.body.json
         THEN ErrorResponse("Failed to unmarshal response data", 500)
    ELSE IF reply.body.choices = <<>>
         THEN ErrorResponse("No response choices returned", 500)
    ELSE SuccessResponse(reply.body.choices[1])

\* C9: under any interleaving the response of a request is determined by its
\* own body and its own upstream reply, and a step of one request changes
\* nothing of another request nor the shared configuration.
C9_Isolation ==
    /\ [](\A r \in Requests :
            Finished(r) => written[r] = <<Outcome(endpoint, reqBody[r], upstream[r])>>)
    /\ [][/\ endpoint' = endpoint
          /\ \A r1, r2 \in Requests :
                (Local(r1)' # Local(r1) /\ Local(r2)' # Local(r2)) => r1 = r2]_vars

\* a request answered with success and references although the other request,
\* sent the same message, had its upstream call fail
C9_Witness ==
    \E r1, r2 \in Requests :
        /\ r1 # r2
        /\ reqBody[r1] = reqBody[r2]
        /\ Finished(r1) /\ upstream[r1].kind = "error"
        /\ Finished(r2) /\ written[r2] # <<>> /\ written[r2][1].status = 200
        /\ written[r2][1].body.references # <<>>

(* C10 *)

\* C10: against a deterministic stub, two calls of the handler with the same
\* body get the same status, response text and reference list.
C10_Idempotent ==
    \A r1, r2 \in Requests :
        (Finished(r1) /\ Finished(r2) /\ reqBody[r1] = reqBody[r2]) =>
            written[r1] = written[r2]

\* two calls with the same message, both answered with success and references
C10_Witness ==
    \E r1, r2 \in Requests :
        /\ r1 # r2
        /\ reqBody[r1] = reqBody[r2] /\ reqBody[r1].json
        /\ Finished(r1) /\ Finished(r2)
        /\ written[r1] # <<>> /\ written[r1][1].status = 200
        /\ written[r1][1].body.references # <<>>

====
